---- MODULE Spec2Model ----
(***************************************************************************)
(* Model of ATen's native fork-join primitives (at::parallel_for and       *)
(* at::parallel_reduce, aten/src/ATen/Parallel_native.h) and of the        *)
(* inter-op thread pool sizing state machine                               *)
(* (aten/src/ATen/Parallel_threadpool_native.cpp).                         *)
(*                                                                         *)
(* Three specifications share the module:                                  *)
(*   Spec         the fork-join engine: caller threads, pool workers, the  *)
(*                pool's queue, the futures and the thread-local region    *)
(*                flags;                                                   *)
(*   SpecPlan     the sequential planning path of one call (range checks,  *)
(*                chunk sizing, chunk boundaries) over wider input ranges; *)
(*   SpecInterOp  set_num_interop_threads / get_num_interop_threads /      *)
(*                launch on the atomic integer num_interop_threads.        *)
(***************************************************************************)
EXTENDS Integers, Sequences, FiniteSets

(***************************************************************************)
(* Bounds of the model.                                                    *)
(***************************************************************************)
\* engine: begin is drawn from 0..MaxBegin, end from 0..MaxEnd
MaxBegin == 1
MaxEnd == 3
\* engine: grain_size is drawn from -1..MaxGrain
MaxGrain == 2
\* engine: get_num_threads() is drawn from 1..MaxThreads
MaxThreads == 2
\* engine: frames a thread may have on its call stack (nesting depth)
MaxDepth == 2
\* engine: calls that bodies make while one top-level call runs
MaxNestedCalls == 1
\* planner: begin from 0..PlanMaxBegin, end from 0..PlanMaxEnd,
\* grain_size from -1..PlanMaxGrain, thread count from 1..PlanMaxThreads
PlanMaxBegin == 2
PlanMaxEnd == 7
PlanMaxGrain == 4
PlanMaxThreads == 4
\* inter-op: set_num_interop_threads arguments are drawn from 0..MaxN
MaxN == 3
\* inter-op: value std::thread::hardware_concurrency() returns
HardwareConcurrency == 2
\* inter-op: calls of each kind the clients make in one run
MaxSetCalls == 3
MaxLaunches == 2
MaxGets == 2

(***************************************************************************)
(* Program constants.                                                      *)
(***************************************************************************)
\* std::atomic<int> num_interop_threads{-1}: no value set yet
Unset == -1
\* num_interop_threads.exchange(-2): the pool is initialized
Initialized == -2
\* int no_value = -1, the expected value of the compare-exchange
no_value == -1
\* std::exception_ptr eptr; default constructed, i.e. null
NullEptr == -1
\* thread number after _unset_thread_num()
NoThreadNum == -1
\* first task_id of the dispatch loop and of the wait loop
FirstPoolTask == 1

Min(a, b) == IF a < b THEN a ELSE b

Max(a, b) == IF a > b THEN a ELSE b

VARIABLES
    \* ---- inter-op pool (Parallel_threadpool_native.cpp)
    num_interop_threads, \* the atomic int
    pool_ready,          \* get_pool()'s function-local static is initialized
    c10_pool,            \* size of createC10ThreadPool's static pool, 0 = not constructed
    ipc,                 \* per client: "idle", or "get" between the load and the return
    nthreads_local,      \* per client: the value get_num_interop_threads loaded
    ires,                \* per client: its last completed call and how it ended
    committed,           \* history: n of the set call that returned without error, 0 = none
    setCalls,            \* history: completed set_num_interop_threads calls
    setPos,              \* history: completed set_num_interop_threads calls with n > 0
    launches,            \* history: completed launch calls
    gets,                \* history: started get_num_interop_threads calls
    \* ---- planning path of one call
    plan,
    \* ---- fork-join engine (Parallel_native.h)
    stack,               \* per thread: its parallel_for / parallel_reduce frames
    wk,                  \* per pool worker: the unit of work it runs
    queue,               \* the intra-op pool's work queue
    in_parallel_region,  \* per thread: thread-local flag
    thread_num,          \* per thread: thread-local task id
    nestedCalls          \* history: calls made by bodies since the top-level call began

ivars == <<num_interop_threads, pool_ready, c10_pool, ipc, nthreads_local, ires,
           committed, setCalls, setPos, launches, gets>>

pvars == <<plan>>

evars == <<stack, wk, queue, in_parallel_region, thread_num, nestedCalls>>

vars == <<ivars, pvars, evars>>

(***************************************************************************)
(* Chunk planning: Parallel_native.h lines 36-49, 75-77, 89.               *)
(***************************************************************************)
\* divup(x, y) of ATen/Parallel.h: the ceiling of x / y
divup(x, y) == (x + y - 1) \div y

\* if (begin >= end) return;
IsEmptyRange(begin, end) == begin >= end

\* if (grain_size < 0) throw std::runtime_error(...)
InvalidGrain_OffByOne(grain_size) == grain_size < -1

InvalidGrain(grain_size) == grain_size < 0

\* if (((end - begin) >= grain_size) && !in_parallel_region())
ShouldFork_NoNestingGuard(begin, end, grain_size, inreg) == (end - begin) >= grain_size

ShouldFork(begin, end, grain_size, inreg) ==
    ((end - begin) >= grain_size) /\ ~inreg

\* chunk_size = divup((end - begin), get_num_threads());
\* chunk_size = std::max((size_t)grain_size, chunk_size);
ChunkSize_NoGrainFloor(begin, end, grain_size, nthreads) == divup(end - begin, nthreads)

ChunkSize(begin, end, grain_size, nthreads) ==
    Max(grain_size, divup(end - begin, nthreads))

\* size_t num_tasks = divup((end - begin), chunk_size);
NumTasks_PlusOne(begin, end, chunk_size) == (end - begin) \div chunk_size + 1

NumTasks(begin, end, chunk_size) == divup(end - begin, chunk_size)

\* int64_t local_start = begin + task_id * chunk_size;
LocalStart_OneChunkAhead(begin, task_id, chunk_size) == begin + (task_id + 1) * chunk_size

LocalStart(begin, task_id, chunk_size) == begin + task_id * chunk_size

\* int64_t local_end = std::min(end, (int64_t)(chunk_size + local_start));
LocalEnd_NoClip(end, chunk_size, local_start) == chunk_size + local_start

LocalEnd(end, chunk_size, local_start) == Min(end, chunk_size + local_start)

\* The path a call takes: lines 36-44 and 100 (113-121 and 176).
Path(begin, end, grain_size, inreg) ==
    IF IsEmptyRange(begin, end) THEN "empty"
    ELSE IF InvalidGrain(grain_size) THEN "invalid"
    ELSE IF ShouldFork(begin, end, grain_size, inreg) THEN "fork"
    ELSE "direct"

(***************************************************************************)
(* Inter-op pool: Parallel_threadpool_native.cpp.                          *)
(***************************************************************************)
IClients == {"a", "b"}

\* largest value of int, the type of num_interop_threads
IntMax == 2147483647

\* size_t nthreads converted to int by compare_exchange_strong(no_value, nthreads)
ToInt(n) == IF n <= IntMax THEN n ELSE n - 2 * (IntMax + 1)

\* pool->size() == pool_size compares a size_t with an int: the int is converted
\* to size_t, so a negative pool_size equals no pool size
SizeEqualsInt(size, pool_size) == pool_size >= 0 /\ size = pool_size

\* std::make_shared<PTThreadPool>(pool_size > 0 ? pool_size : hardware_concurrency())
\* initializes the function-local static once; later calls keep the pool
CreatePoolSize_IgnoresRequest(c10, pool_size) ==
    IF c10 # 0 THEN c10 ELSE HardwareConcurrency

CreatePoolSize(c10, pool_size) ==
    IF c10 # 0 THEN c10
    ELSE IF pool_size > 0 THEN pool_size ELSE HardwareConcurrency

\* AT_ASSERT(device_id == 0); AT_ASSERT(!create_new); AT_ASSERT(pool->size() == pool_size);
CreateAsserts(size, device_id, pool_size, create_new) ==
    device_id = 0 /\ ~create_new /\ SizeEqualsInt(size, pool_size)

\* get_pool(): the static pool is initialized by the first call that gets through
\* Create("C10", 0, num_interop_threads.exchange(-2), false) without an exception;
\* an initializer that throws leaves the static uninitialized and is run again.
GetPool(nit, ready, c10) ==
    IF ready
    THEN [nit |-> nit, ready |-> TRUE, c10 |-> c10, raised |-> FALSE]
    ELSE LET pool_size == nit
             size == CreatePoolSize(c10, pool_size)
             ok == CreateAsserts(size, 0, pool_size, FALSE)
         IN  [nit |-> Initialized, ready |-> ok, c10 |-> size, raised |-> ~ok]

\* if (nthreads == 0) { return; }: the request that is ignored, lines 54-56
IgnoredRequest_Never(nthreads) == FALSE

IgnoredRequest(nthreads) == nthreads = 0

\* num_interop_threads.compare_exchange_strong(no_value, nthreads) succeeds
CasSucceeds_Always(cur, expected) == TRUE

CasSucceeds_AnyUninitialized(cur, expected) == cur # Initialized

CasSucceeds(cur, expected) == cur = expected

NoCall == [op |-> "none", arg |-> 0, raised |-> FALSE, ret |-> 0,
           seq |-> 0, pseq |-> 0, lz |-> 0]

IInit ==
    /\ num_interop_threads = Unset
    /\ pool_ready = FALSE
    /\ c10_pool = 0
    /\ ipc = [c \in IClients |-> "idle"]
    /\ nthreads_local = [c \in IClients |-> 0]
    /\ ires = [c \in IClients |-> NoCall]
    /\ committed = 0
    /\ setCalls = 0
    /\ setPos = 0
    /\ launches = 0
    /\ gets = 0

\* void set_num_interop_threads(size_t nthreads), lines 53-64
SetNumInteropThreads(c, n) ==
    /\ ipc[c] = "idle"
    /\ setCalls < MaxSetCalls
    /\ LET ignored == IgnoredRequest(n)
           ok == ignored \/ CasSucceeds(num_interop_threads, no_value)
       IN  /\ num_interop_threads' =
                IF ~ignored /\ ok THEN ToInt(n) ELSE num_interop_threads
           /\ committed' = IF ~ignored /\ ok THEN n ELSE committed
           /\ ires' = [ires EXCEPT ![c] =
                [op |-> "set", arg |-> n, raised |-> ~ok, ret |-> 0,
                 seq |-> setCalls + 1,
                 pseq |-> IF n > 0 THEN setPos + 1 ELSE 0,
                 lz |-> launches]]
    /\ setCalls' = setCalls + 1
    /\ setPos' = IF n > 0 THEN setPos + 1 ELSE setPos
    /\ UNCHANGED <<pool_ready, c10_pool, ipc, nthreads_local, launches, gets>>
    /\ UNCHANGED <<pvars, evars>>

\* size_t get_num_interop_threads(): int nthreads = num_interop_threads.load(); line 67
GetLoad(c) ==
    /\ ipc[c] = "idle"
    /\ gets < MaxGets
    /\ gets' = gets + 1
    /\ ipc' = [ipc EXCEPT ![c] = "get"]
    /\ nthreads_local' = [nthreads_local EXCEPT ![c] = num_interop_threads]
    /\ ires' = [ires EXCEPT ![c] =
            [op |-> "get_pending", arg |-> 0, raised |-> FALSE, ret |-> 0,
             seq |-> 0, pseq |-> 0, lz |-> launches]]
    /\ UNCHANGED <<num_interop_threads, pool_ready, c10_pool, committed,
                   setCalls, setPos, launches>>
    /\ UNCHANGED <<pvars, evars>>

\* get_num_interop_threads(), lines 68-71: the loaded values answered without
\* get_pool(): nthreads > 0, and nthreads == -1
AnsweredWithoutPool_OnlyRequested(nthreads) == nthreads > 0

AnsweredWithoutPool(nthreads) == nthreads > 0 \/ nthreads = Unset

\* get_num_interop_threads(), lines 68-74: the three branches on the loaded value
GetReturn(c) ==
    /\ ipc[c] = "get"
    /\ ipc' = [ipc EXCEPT ![c] = "idle"]
    /\ LET n == nthreads_local[c]
           r == GetPool(num_interop_threads, pool_ready, c10_pool)
       IN  IF AnsweredWithoutPool(n)
           THEN /\ ires' = [ires EXCEPT ![c].op = "get",
                                        ![c].ret = IF n > 0 THEN n ELSE HardwareConcurrency]
                /\ UNCHANGED <<num_interop_threads, pool_ready, c10_pool>>
           ELSE /\ ires' = [ires EXCEPT ![c].op = "get",
                                        ![c].raised = r.raised,
                                        ![c].ret = IF r.raised THEN 0 ELSE r.c10]
                /\ num_interop_threads' = r.nit
                /\ pool_ready' = r.ready
                /\ c10_pool' = r.c10
    /\ UNCHANGED <<nthreads_local, committed, setCalls, setPos, launches, gets>>
    /\ UNCHANGED <<pvars, evars>>

\* void launch(const std::function<void()>& func): get_pool().run(func); lines 77-79
Launch(c) ==
    /\ ipc[c] = "idle"
    /\ launches < MaxLaunches
    /\ LET r == GetPool(num_interop_threads, pool_ready, c10_pool)
       IN  /\ num_interop_threads' = r.nit
           /\ pool_ready' = r.ready
           /\ c10_pool' = r.c10
           /\ ires' = [ires EXCEPT ![c] =
                [op |-> "launch", arg |-> 0, raised |-> r.raised, ret |-> 0,
                 seq |-> launches + 1, pseq |-> 0, lz |-> launches]]
    /\ launches' = launches + 1
    /\ UNCHANGED <<ipc, nthreads_local, committed, setCalls, setPos, gets>>
    /\ UNCHANGED <<pvars, evars>>

INext ==
    \/ \E c \in IClients, n \in 0..MaxN : SetNumInteropThreads(c, n)
    \/ \E c \in IClients : GetLoad(c)
    \/ \E c \in IClients : GetReturn(c)
    \/ \E c \in IClients : Launch(c)

(***************************************************************************)
(* The planning path of one call, run sequentially: the checks of lines    *)
(* 36-44, the sizing of lines 46-49, the dispatch loop's chunk bounds      *)
(* (lines 72-77) and chunk 0's bounds (line 89).                           *)
(***************************************************************************)
PlanInputs ==
    { [begin |-> b, end |-> e, grain_size |-> g, nthreads |-> n, inreg |-> r] :
        b \in 0..PlanMaxBegin, e \in 0..PlanMaxEnd, g \in (-1)..PlanMaxGrain,
        n \in 1..PlanMaxThreads, r \in BOOLEAN }
    \cup { [begin |-> 0, end |-> 100, grain_size |-> 10, nthreads |-> 4, inreg |-> FALSE] }

PInit ==
    plan \in { [in |-> i, phase |-> "entry", chunk_size |-> 0, num_tasks |-> 0,
                task_id |-> 0, chunks |-> {}, skipped |-> 0] : i \in PlanInputs }

\* lines 36-49 and 100
PlanEntry ==
    /\ plan.phase = "entry"
    /\ LET i == plan.in
           path == Path(i.begin, i.end, i.grain_size, i.inreg)
           cs == ChunkSize(i.begin, i.end, i.grain_size, i.nthreads)
       IN  plan' =
             IF path = "fork"
             THEN [plan EXCEPT !.phase = "sized", !.chunk_size = cs,
                               !.num_tasks = NumTasks(i.begin, i.end, cs),
                               !.task_id = FirstPoolTask]
             ELSE IF path = "direct"
             THEN [plan EXCEPT !.phase = "direct",
                               !.chunks = {[id |-> 0, s |-> i.begin, e |-> i.end]}]
             ELSE [plan EXCEPT !.phase = path]
    /\ UNCHANGED <<ivars, evars>>

\* one iteration of the loop of lines 72-87
PlanDispatch ==
    /\ plan.phase = "sized"
    /\ plan.task_id < plan.num_tasks
    /\ LET i == plan.in
           local_start == LocalStart(i.begin, plan.task_id, plan.chunk_size)
       IN  plan' =
             IF local_start < i.end
             THEN [plan EXCEPT !.task_id = @ + 1,
                               !.chunks = @ \cup
                                  {[id |-> plan.task_id, s |-> local_start,
                                    e |-> LocalEnd(i.end, plan.chunk_size, local_start)]}]
             ELSE [plan EXCEPT !.task_id = @ + 1, !.skipped = @ + 1]
    /\ UNCHANGED <<ivars, evars>>

\* lines 89-90: chunk 0, on the calling thread
PlanFirst ==
    /\ plan.phase = "sized"
    /\ ~(plan.task_id < plan.num_tasks)
    /\ plan' = [plan EXCEPT !.phase = "planned",
                            !.chunks = @ \cup
                               {[id |-> 0, s |-> plan.in.begin,
                                 e |-> LocalEnd(plan.in.end, plan.chunk_size, plan.in.begin)]}]
    /\ UNCHANGED <<ivars, evars>>

PNext == PlanEntry \/ PlanDispatch \/ PlanFirst

(***************************************************************************)
(* The fork-join engine: Parallel_native.h.                                *)
(***************************************************************************)
Callers == {"c1", "c2"}

\* the one thread that calls in the specification of the engine (Spec); both
\* threads of Callers call in the specification with fairness (SpecFair)
SoloCallers == {"c1"}

Workers == {"w1", "w2"}

Threads == Callers \cup Workers

\* identity values passed to parallel_reduce
Idents == {0, 1}

\* the arguments of a top-level call
CallArgs ==
    { [op |-> o, begin |-> b, end |-> e, grain_size |-> g, ident |-> i, nthreads |-> n] :
        o \in {"for", "reduce"}, b \in 0..MaxBegin, e \in 0..MaxEnd,
        g \in (-1)..MaxGrain, i \in Idents, n \in 1..MaxThreads }

\* the arguments of a call a body makes: an empty range, a negative grain size,
\* a range below the grain size and a range that a top-level call would fork
NestedArgs ==
    { [op |-> a[1], begin |-> a[2], end |-> a[3], grain_size |-> a[4], ident |-> 0,
       nthreads |-> MaxThreads] :
        a \in {<<"for", 1, 1, 0>>, <<"reduce", 0, 2, -1>>,
                <<"reduce", 0, 1, 2>>, <<"for", 0, 2, 1>>} }

\* the value the reduction reads at index i
Elem(i) == i + 1

\* F f of parallel_reduce, called as f(local_start, local_end, ident): a chunk's
\* partial result, folded from ident
RECURSIVE f(_, _, _)
f(local_start, local_end, ident) ==
    IF local_start >= local_end THEN ident
    ELSE f(local_start, local_end - 1, ident) + Elem(local_end - 1)

\* SF sf of parallel_reduce: the combiner
sf(a, b) == a + b

\* std::accumulate(results_data, results_data + results.size(), ident, sf)
RECURSIVE AccumulateFrom(_, _, _, _)
AccumulateFrom(results, first, n, acc) ==
    IF first >= n THEN acc
    ELSE AccumulateFrom(results, first + 1, n, sf(acc, results[first]))

Accumulate_SkipFirst(results, n, ident) == AccumulateFrom(results, 1, n, ident)

Accumulate(results, n, ident) == AccumulateFrom(results, 0, n, ident)

\* return ident; of parallel_reduce on an empty range (line 114)
EmptyResult_Zero(op, ident) == 0

EmptyResult(op, ident) == IF op = "reduce" THEN ident ELSE 0

\* the loop condition of the dispatch loop (lines 72, 146)
DispatchLoopCond(task_id, num_tasks) == task_id < num_tasks

\* the loop condition of the wait loop (lines 93, 166)
WaitLoopCond_OffByOne(task_id, num_tasks) == task_id < num_tasks - 1

WaitLoopCond(task_id, num_tasks) == task_id < num_tasks

\* if (eptr) std::rethrow_exception(eptr); (lines 97-99, 170-172)
Rethrows_Never(eptr) == FALSE

Rethrows(eptr) == eptr # NullEptr

\* the frame of a call: its arguments, its locals, and its history
NewFrame(t, a, inreg) ==
    LET path == Path(a.begin, a.end, a.grain_size, inreg)
        cs == IF path = "fork"
              THEN ChunkSize(a.begin, a.end, a.grain_size, a.nthreads) ELSE 0
        nt == IF path = "fork" THEN NumTasks(a.begin, a.end, cs) ELSE 0
    IN  [op |-> a.op, begin |-> a.begin, end |-> a.end, grain_size |-> a.grain_size,
         ident |-> IF a.op = "reduce" THEN a.ident ELSE 0,
         nthreads |-> a.nthreads,
         thr |-> t, inreg |-> inreg, path |-> path,
         pc |-> CASE path = "empty" -> "ret"
                  [] path = "invalid" -> "threw"
                  [] path = "fork" -> "dispatch"
                  [] OTHER -> "direct",
         exc |-> IF path = "invalid" THEN "invalid" ELSE "none",
         retval |-> IF path = "empty" THEN EmptyResult(a.op, a.ident) ELSE 0,
         chunk_size |-> cs, num_tasks |-> nt, task_id |-> FirstPoolTask,
         err_flag |-> FALSE, eptr |-> NullEptr,
         futures |-> [k \in 0..(nt - 1) |-> "null"],
         results |-> [k \in 0..(nt - 1) |-> 0],
         \* history
         chunk |-> [k \in 0..(nt - 1) |-> "none"],
         inv |-> IF path = "direct"
                 THEN {[id |-> 0, s |-> a.begin, e |-> a.end, thr |-> t]} ELSE {},
         ninv |-> IF path = "direct" THEN 1 ELSE 0,
         ndisp |-> 0, nfut |-> 0, ncomb |-> 0, eptr_writes |-> 0,
         first_raised |-> NullEptr, tnum |-> thread_num[t],
         completions |-> [k \in 0..(nt - 1) |-> 0]]

IdleWorker ==
    [pc |-> "idle", owner |-> "none", lvl |-> 0, task_id |-> 0, s |-> 0, e |-> 0]

EInit ==
    /\ stack = [t \in Threads |-> << >>]
    /\ wk = [w \in Workers |-> IdleWorker]
    /\ queue = << >>
    /\ in_parallel_region = [t \in Threads |-> FALSE]
    /\ thread_num = [t \in Threads |-> NoThreadNum]
    /\ nestedCalls = 0

Top(t) == stack[t][Len(stack[t])]

Pop(stk) == SubSeq(stk, 1, Len(stk) - 1)

\* thread t is inside a body (f) that is running, not inside a call that body made
BodyOfFrame(t) == stack[t] # << >> /\ Top(t).pc \in {"body0", "direct"}

BodyOfWork(t) == t \in Workers /\ stack[t] = << >> /\ wk[t].pc = "body"

\* the catch block of the task lambda (lines 59-63, 136-140)
Catch_NoTestAndSet(fr, task_id) ==
    [fr EXCEPT !.err_flag = TRUE, !.eptr = task_id, !.eptr_writes = @ + 1]

Catch(fr, task_id) ==
    IF ~fr.err_flag
    THEN [fr EXCEPT !.err_flag = TRUE, !.eptr = task_id, !.eptr_writes = @ + 1]
    ELSE fr

\* the try block of the task lambda when f returns or throws (lines 57-63, 134-140)
TaskBodyEnd(fr, task_id, local_start, local_end, raised) ==
    IF raised
    THEN [Catch(fr, task_id) EXCEPT !.chunk[task_id] = "raised",
                                    !.first_raised = IF @ = NullEptr THEN task_id ELSE @]
    ELSE [fr EXCEPT !.chunk[task_id] = "ok",
                    !.results[task_id] =
                        IF fr.op = "reduce" THEN f(local_start, local_end, fr.ident) ELSE @]

\* chunk 0 of frame fr ends on the calling thread: the rest of task(0, ...), lines 57-65
Task0EndFrame(fr, raised) ==
    [TaskBodyEnd(fr, 0, fr.begin, LocalEnd(fr.end, fr.chunk_size, fr.begin), raised)
       EXCEPT !.pc = "wait", !.task_id = FirstPoolTask]

\* f(begin, end) / return f(begin, end, ident) of the else branch (lines 101, 177)
DirectEndFrame(fr, raised) ==
    IF raised
    THEN [fr EXCEPT !.pc = "threw", !.exc = "body"]
    ELSE [fr EXCEPT !.pc = "ret",
                    !.retval = IF fr.op = "reduce" THEN f(fr.begin, fr.end, fr.ident) ELSE 0]

\* _set_thread_num(task_id); at the start of the task lambda (lines 55, 132)
TaskThreadNum_Unset(task_id) == NoThreadNum

TaskThreadNum(task_id) == task_id

\* _set_in_parallel_region(false); after the try/catch of the task lambda, on the
\* path where f returned and on the path where it threw (lines 64, 141)
RegionAfterTask_SkippedOnThrow(raised) == raised

RegionAfterTask(raised) == FALSE

\* the frame a unit of work refers to is still on its owner's stack (the lambda
\* captures the caller's locals by reference)
FrameLive(it) ==
    /\ it.owner \in Threads
    /\ it.lvl <= Len(stack[it.owner])
    /\ it.task_id \in DOMAIN stack[it.owner][it.lvl].futures

\* The body running on thread t ends, returning or throwing; stk is t's stack
\* below any call the body made. Three places run a body: task(0, ...) on the
\* calling thread, the else branch, and task(task_id, ...) in a unit of work.
\* After the body: _set_in_parallel_region(false); _unset_thread_num(); (lines 64-65)
EndBody(t, stk, raised) ==
    IF stk # << >>
    THEN LET fr == stk[Len(stk)]
         IN  IF fr.pc = "body0"
             THEN /\ stack' = [stack EXCEPT ![t] =
                                  [stk EXCEPT ![Len(stk)] = Task0EndFrame(fr, raised)]]
                  /\ in_parallel_region' = [in_parallel_region EXCEPT ![t] = RegionAfterTask(raised)]
                  /\ thread_num' = [thread_num EXCEPT ![t] = NoThreadNum]
                  /\ UNCHANGED <<wk, queue, nestedCalls>>
             ELSE /\ stack' = [stack EXCEPT ![t] =
                                  [stk EXCEPT ![Len(stk)] = DirectEndFrame(fr, raised)]]
                  /\ UNCHANGED <<wk, queue, in_parallel_region, thread_num, nestedCalls>>
    ELSE LET it == wk[t]
         IN  /\ stack' = [stack EXCEPT
                            ![t] = stk,
                            ![it.owner] =
                               IF FrameLive(it)
                               THEN [@ EXCEPT ![it.lvl] =
                                       TaskBodyEnd(@, it.task_id, it.s, it.e, raised)]
                               ELSE @]
             /\ wk' = [wk EXCEPT ![t].pc = "mark"]
             /\ in_parallel_region' = [in_parallel_region EXCEPT ![t] = RegionAfterTask(raised)]
             /\ thread_num' = [thread_num EXCEPT ![t] = NoThreadNum]
             /\ UNCHANGED <<queue, nestedCalls>>

\* a top-level parallel_for / parallel_reduce call: lines 31-49 (106-129)
Call(t, a) ==
    /\ t \in Callers
    /\ stack[t] = << >>
    /\ stack' = [stack EXCEPT ![t] = <<NewFrame(t, a, in_parallel_region[t])>>]
    /\ UNCHANGED <<wk, queue, in_parallel_region, thread_num, nestedCalls>>
    /\ UNCHANGED <<ivars, pvars>>

\* a running body calls parallel_for / parallel_reduce itself
NestedCall(t, a) ==
    /\ nestedCalls < MaxNestedCalls
    /\ \/ BodyOfFrame(t) /\ Len(stack[t]) < MaxDepth
       \/ BodyOfWork(t) /\ 1 < MaxDepth
    /\ stack' = [stack EXCEPT ![t] = Append(@, NewFrame(t, a, in_parallel_region[t]))]
    /\ nestedCalls' = nestedCalls + 1
    /\ UNCHANGED <<wk, queue, in_parallel_region, thread_num>>
    /\ UNCHANGED <<ivars, pvars>>

\* one iteration of the dispatch loop: lines 72-87 (146-161)
Dispatch(t) ==
    /\ stack[t] # << >>
    /\ Top(t).pc = "dispatch"
    /\ DispatchLoopCond(Top(t).task_id, Top(t).num_tasks)
    /\ LET fr == Top(t)
           k == fr.task_id
           local_start == LocalStart(fr.begin, k, fr.chunk_size)
           local_end == LocalEnd(fr.end, fr.chunk_size, local_start)
       IN  IF local_start < fr.end
           THEN /\ queue' = Append(queue,
                      [owner |-> t, lvl |-> Len(stack[t]), task_id |-> k,
                       s |-> local_start, e |-> local_end])
                /\ stack' = [stack EXCEPT ![t][Len(stack[t])] =
                      [fr EXCEPT !.futures[k] = "pending", !.nfut = @ + 1,
                                 !.chunk[k] = "queued", !.ndisp = @ + 1,
                                 !.task_id = k + 1]]
           ELSE /\ queue' = queue
                /\ stack' = [stack EXCEPT ![t][Len(stack[t])] =
                      [fr EXCEPT !.futures[k] = "completed", !.nfut = @ + 1,
                                 !.completions[k] = @ + 1,
                                 !.task_id = k + 1]]
    /\ UNCHANGED <<wk, in_parallel_region, thread_num, nestedCalls>>
    /\ UNCHANGED <<ivars, pvars>>

\* task(0, begin, first_task_end) starts on the calling thread: lines 89-90, 55-58
Task0Begin(t) ==
    /\ stack[t] # << >>
    /\ Top(t).pc = "dispatch"
    /\ ~DispatchLoopCond(Top(t).task_id, Top(t).num_tasks)
    /\ LET fr == Top(t)
           first_task_end == LocalEnd(fr.end, fr.chunk_size, fr.begin)
       IN  stack' = [stack EXCEPT ![t][Len(stack[t])] =
              [fr EXCEPT !.pc = "body0", !.chunk[0] = "running",
                         !.inv = @ \cup {[id |-> 0, s |-> fr.begin,
                                          e |-> first_task_end, thr |-> t]},
                         !.ninv = @ + 1]]
    /\ thread_num' = [thread_num EXCEPT ![t] = TaskThreadNum(0)]
    /\ in_parallel_region' = [in_parallel_region EXCEPT ![t] = TRUE]
    /\ UNCHANGED <<wk, queue, nestedCalls>>
    /\ UNCHANGED <<ivars, pvars>>

\* the body running on t returns
BodyReturns(t) ==
    /\ BodyOfFrame(t) \/ BodyOfWork(t)
    /\ EndBody(t, stack[t], FALSE)
    /\ UNCHANGED <<ivars, pvars>>

\* the body running on t throws
BodyRaises(t) ==
    /\ BodyOfFrame(t) \/ BodyOfWork(t)
    /\ EndBody(t, stack[t], TRUE)
    /\ UNCHANGED <<ivars, pvars>>

\* futures[task_id]->wait(): one iteration of the wait loop, lines 93-95 (166-168)
Wait(t) ==
    /\ stack[t] # << >>
    /\ Top(t).pc = "wait"
    /\ WaitLoopCond(Top(t).task_id, Top(t).num_tasks)
    /\ Top(t).futures[Top(t).task_id] = "completed"
    /\ stack' = [stack EXCEPT ![t][Len(stack[t])].task_id = @ + 1]
    /\ UNCHANGED <<wk, queue, in_parallel_region, thread_num, nestedCalls>>
    /\ UNCHANGED <<ivars, pvars>>

\* after the wait loop: rethrow, or return (the fold, for parallel_reduce):
\* lines 97-99 (170-175)
Finish(t) ==
    /\ stack[t] # << >>
    /\ Top(t).pc = "wait"
    /\ ~WaitLoopCond(Top(t).task_id, Top(t).num_tasks)
    /\ LET fr == Top(t)
       IN  stack' = [stack EXCEPT ![t][Len(stack[t])] =
              IF Rethrows(fr.eptr)
              THEN [fr EXCEPT !.pc = "threw", !.exc = "body"]
              ELSE IF fr.op = "reduce"
              THEN [fr EXCEPT !.pc = "ret", !.ncomb = fr.num_tasks,
                              !.retval = Accumulate(fr.results, fr.num_tasks, fr.ident)]
              ELSE [fr EXCEPT !.pc = "ret"]]
    /\ UNCHANGED <<wk, queue, in_parallel_region, thread_num, nestedCalls>>
    /\ UNCHANGED <<ivars, pvars>>

\* the call returns to its caller: to the program, or into the body that made it
Return(t) ==
    /\ stack[t] # << >>
    /\ \/ Top(t).pc = "ret"
       \/ Top(t).pc = "threw" /\ Len(stack[t]) = 1 /\ t \in Callers
    /\ stack' = [stack EXCEPT ![t] = Pop(stack[t])]
    /\ nestedCalls' = IF Len(stack[t]) = 1 /\ t \in Callers THEN 0 ELSE nestedCalls
    /\ UNCHANGED <<wk, queue, in_parallel_region, thread_num>>
    /\ UNCHANGED <<ivars, pvars>>

\* the call throws into the body that made it, and the body lets it through
Unwind(t) ==
    /\ stack[t] # << >>
    /\ Top(t).pc = "threw"
    /\ ~(Len(stack[t]) = 1 /\ t \in Callers)
    /\ EndBody(t, Pop(stack[t]), TRUE)
    /\ UNCHANGED <<ivars, pvars>>

\* two idle workers in the same thread-local state are interchangeable: which of
\* them the pool wakes makes no difference, and the model lets the first take
\* the work
WorkerBefore(v, w) == v = "w1" /\ w # "w1"

SameIdleWorker(v, w) ==
    /\ wk[v].pc = "idle" /\ wk[w].pc = "idle"
    /\ stack[v] = stack[w]
    /\ in_parallel_region[v] = in_parallel_region[w]
    /\ thread_num[v] = thread_num[w]

\* a pool worker takes the next unit of work and enters task(task_id, ...):
\* lines 80-81, 55-58
WorkerTake(w) ==
    /\ wk[w].pc = "idle"
    /\ queue # << >>
    /\ ~\E v \in Workers : SameIdleWorker(v, w) /\ WorkerBefore(v, w)
    /\ LET it == Head(queue)
       IN  /\ wk' = [wk EXCEPT ![w] =
                [pc |-> "body", owner |-> it.owner, lvl |-> it.lvl,
                 task_id |-> it.task_id, s |-> it.s, e |-> it.e]]
           /\ stack' = [stack EXCEPT ![it.owner] =
                IF FrameLive(it)
                THEN [@ EXCEPT ![it.lvl] =
                        [@ EXCEPT !.chunk[it.task_id] = "running",
                                  !.inv = @ \cup {[id |-> it.task_id, s |-> it.s,
                                                   e |-> it.e, thr |-> w]},
                                  !.ninv = @ + 1]]
                ELSE @]
           /\ thread_num' = [thread_num EXCEPT ![w] = TaskThreadNum(it.task_id)]
           /\ in_parallel_region' = [in_parallel_region EXCEPT ![w] = TRUE]
    /\ queue' = Tail(queue)
    /\ nestedCalls' = nestedCalls
    /\ UNCHANGED <<ivars, pvars>>

\* the state of the future after future_ptr->markCompleted(IValue()); line 82 (156)
MarkCompleted_Forgotten(status) == status

MarkCompleted(status) == "completed"

\* future_ptr->markCompleted(IValue()); line 82 (156)
WorkerMark(w) ==
    /\ wk[w].pc = "mark"
    /\ LET it == wk[w]
       IN  stack' = [stack EXCEPT ![it.owner] =
              IF FrameLive(it)
              THEN [@ EXCEPT ![it.lvl] =
                      [@ EXCEPT !.futures[it.task_id] = MarkCompleted(@),
                                !.completions[it.task_id] = @ + 1]]
              ELSE @]
    /\ wk' = [wk EXCEPT ![w] = IdleWorker]
    /\ UNCHANGED <<queue, in_parallel_region, thread_num, nestedCalls>>
    /\ UNCHANGED <<ivars, pvars>>

ENext ==
    \/ \E t \in SoloCallers, a \in CallArgs : Call(t, a)
    \/ \E t \in Threads, a \in NestedArgs : NestedCall(t, a)
    \/ \E t \in Threads : Dispatch(t)
    \/ \E t \in Threads : Task0Begin(t)
    \/ \E t \in Threads : BodyReturns(t)
    \/ \E t \in Threads : BodyRaises(t)
    \/ \E t \in Threads : Wait(t)
    \/ \E t \in Threads : Finish(t)
    \/ \E t \in Threads : Return(t)
    \/ \E t \in Threads : Unwind(t)
    \/ \E w \in Workers : WorkerTake(w)
    \/ \E w \in Workers : WorkerMark(w)

(***************************************************************************)
(* The specifications.                                                     *)
(***************************************************************************)
\* no call is being planned
PIdle ==
    plan = [in |-> [begin |-> 0, end |-> 0, grain_size |-> 0, nthreads |-> 1,
                    inreg |-> FALSE],
            phase |-> "idle", chunk_size |-> 0, num_tasks |-> 0,
            task_id |-> 0, chunks |-> {}, skipped |-> 0]

\* the fork-join engine
Init == IInit /\ PIdle /\ EInit

Next == ENext

Spec == Init /\ [][Next]_vars

\* the operation each thread of Callers calls in the specification with fairness
FairOp(t) == IF t = "c1" THEN "for" ELSE "reduce"

\* the arguments of the top-level calls there: calls that fork over the largest
\* range, with either identity for the reduction
FairArgs(t) ==
    { [op |-> FairOp(t), begin |-> 0, end |-> MaxEnd, grain_size |-> 1, ident |-> i,
       nthreads |-> MaxThreads] : i \in IF FairOp(t) = "reduce" THEN Idents ELSE {0} }

\* every thread of Callers has just made a top-level call (the state after one
\* Call step of each); the calls then run together on the one pool
FairInit ==
    /\ IInit /\ PIdle
    /\ wk = [w \in Workers |-> IdleWorker]
    /\ queue = << >>
    /\ in_parallel_region = [t \in Threads |-> FALSE]
    /\ thread_num = [t \in Threads |-> NoThreadNum]
    /\ nestedCalls = 0
    /\ \E args \in [Callers -> UNION { FairArgs(t) : t \in Callers }] :
          /\ \A t \in Callers : args[t] \in FairArgs(t)
          /\ stack = [t \in Threads |->
                        IF t \in Callers THEN <<NewFrame(t, args[t], FALSE)>> ELSE << >>]

\* the calls a body makes there: one that throws (negative grain size) and one
\* that runs its own body, which may make calls in turn
FairNestedArgs == { a \in NestedArgs : a.op = "reduce" }

\* the steps of the calls that were made: every action of the engine but Call
FairNext ==
    \/ \E t \in Threads, a \in FairNestedArgs : NestedCall(t, a)
    \/ \E t \in Threads : Dispatch(t)
    \/ \E t \in Threads : Task0Begin(t)
    \/ \E t \in Threads : BodyReturns(t)
    \/ \E t \in Threads : BodyRaises(t)
    \/ \E t \in Threads : Wait(t)
    \/ \E t \in Threads : Finish(t)
    \/ \E t \in Threads : Return(t)
    \/ \E t \in Threads : Unwind(t)
    \/ \E w \in Workers : WorkerTake(w)
    \/ \E w \in Workers : WorkerMark(w)

\* a step of the engine's own code on thread t: none of them blocks but Wait,
\* which is enabled once the future it waits on is completed
EngineStep(t) ==
    \/ Dispatch(t) \/ Task0Begin(t) \/ Wait(t) \/ Finish(t) \/ Return(t) \/ Unwind(t)
    \/ t \in Workers /\ (WorkerTake(t) \/ WorkerMark(t))

\* the body running on thread t ends, returning or throwing
BodyEnds(t) == BodyReturns(t) \/ BodyRaises(t)

\* every thread that can take a step of the engine's code is scheduled, the pool
\* runs the work it was handed, and every body ends: the step that ends a body
\* is enabled whenever the body is not inside a call, and a body makes finitely
\* many calls
Fairness ==
    \A t \in Threads : WF_vars(EngineStep(t)) /\ WF_vars(BodyEnds(t))

\* the fork-join engine with two calling threads, fair scheduling and
\* terminating bodies
SpecFair == FairInit /\ [][FairNext]_vars /\ Fairness

\* the planning path
PlanInit == IInit /\ PInit /\ EInit

PlanNext == PNext

SpecPlan == PlanInit /\ [][PlanNext]_vars

\* the inter-op pool
InterOpInit == IInit /\ PIdle /\ EInit

InterOpNext == INext

SpecInterOp == InterOpInit /\ [][InterOpNext]_vars

(***************************************************************************)
(* Properties of the fork-join engine (specification Spec).                *)
(***************************************************************************)
\* the positions of the frames on the threads' stacks
Frames == { <<t, i>> : t \in Threads, i \in 1..MaxDepth }

LiveFrames == { p \in Frames : p[2] <= Len(stack[p[1]]) }

FrameAt(p) == stack[p[1]][p[2]]

\* the call of frame fr is over: it is returning or throwing to its caller
Over(fr) == fr.pc \in {"ret", "threw"}

\* some unit of work of the frame at p is still queued or on a worker
Outstanding(p) ==
    \/ \E w \in Workers : wk[w].pc # "idle" /\ wk[w].owner = p[1] /\ wk[w].lvl = p[2]
    \/ \E j \in DOMAIN queue : queue[j].owner = p[1] /\ queue[j].lvl = p[2]

RaisedChunks(fr) == { k \in DOMAIN fr.chunk : fr.chunk[k] = "raised" }

\* C1. Join barrier: a forked call returns control to its caller, by return or
\* by throwing, only when every one of its chunk bodies (chunk 0 on the caller,
\* the others on the pool) has returned or thrown, and no unit of work of the
\* call is left queued or running.
C1_JoinBarrier ==
    \A p \in LiveFrames :
        LET fr == FrameAt(p)
        IN  fr.path = "fork" /\ Over(fr) =>
              /\ fr.num_tasks >= 1
              /\ \A k \in 0..(fr.num_tasks - 1) : fr.chunk[k] \in {"ok", "raised"}
              /\ ~Outstanding(p)

\* a forked call with a chunk on the pool has thrown after that chunk threw
C1_Witness ==
    \E p \in LiveFrames :
        LET fr == FrameAt(p)
        IN  /\ fr.path = "fork" /\ fr.pc = "threw"
            /\ fr.num_tasks >= 2 /\ fr.chunk[1] = "raised" /\ fr.chunk[0] = "ok"

\* C2. Exception propagation: while a forked call runs, the exception slot is
\* written at most once, by the first chunk whose catch block ran, and never
\* overwritten; when the call is over it has thrown exactly when some chunk
\* threw, the error it throws is that first chunk's, parallel_reduce has then
\* folded nothing, and every chunk has completed.
C2_ExceptionPropagation ==
    \A p \in LiveFrames :
        LET fr == FrameAt(p)
        IN  fr.path = "fork" =>
              /\ fr.eptr_writes <= 1
              /\ fr.eptr = fr.first_raised
              /\ fr.eptr # NullEptr => fr.eptr \in RaisedChunks(fr) /\ fr.eptr_writes = 1
              /\ Over(fr) /\ RaisedChunks(fr) # {} =>
                    /\ fr.pc = "threw" /\ fr.exc = "body"
                    /\ fr.eptr \in RaisedChunks(fr)
                    /\ fr.ncomb = 0 /\ fr.retval = 0
                    /\ \A k \in 0..(fr.num_tasks - 1) : fr.chunk[k] \in {"ok", "raised"}
              /\ Over(fr) /\ RaisedChunks(fr) = {} =>
                    fr.pc = "ret" /\ fr.exc = "none" /\ fr.eptr = NullEptr

\* a forked call has thrown the error of chunk 1 after chunk 0 threw as well
C2_Witness ==
    \E p \in LiveFrames :
        LET fr == FrameAt(p)
        IN  /\ fr.path = "fork" /\ fr.pc = "threw"
            /\ Cardinality(RaisedChunks(fr)) >= 2 /\ fr.eptr = 1

\* C3. Partition: for begin < end and grain_size >= 0 the ranges the body has
\* been invoked on never overlap, each lies in [begin, end) and is non-empty,
\* no range is invoked twice, in the forked path chunk k is
\* [begin + k*chunk_size, min(end, begin + (k+1)*chunk_size)), and when the
\* call is over the ranges cover [begin, end): every index exactly once.
C3_Partition ==
    \A p \in LiveFrames :
        LET fr == FrameAt(p)
            covering(i) == { c \in fr.inv : c.s <= i /\ i < c.e }
        IN  fr.begin < fr.end /\ fr.grain_size >= 0 =>
              /\ fr.ninv = Cardinality(fr.inv)
              /\ \A c \in fr.inv : fr.begin <= c.s /\ c.s < c.e /\ c.e <= fr.end
              /\ \A i \in fr.begin..(fr.end - 1) : Cardinality(covering(i)) <= 1
              /\ fr.path = "fork" =>
                    \A c \in fr.inv :
                        /\ c.id \in 0..(fr.num_tasks - 1)
                        /\ c.s = fr.begin + c.id * fr.chunk_size
                        /\ c.e = Min(fr.end, fr.begin + (c.id + 1) * fr.chunk_size)
              /\ Over(fr) =>
                    \A i \in fr.begin..(fr.end - 1) : Cardinality(covering(i)) = 1

\* a forked call is over whose last chunk was clipped to end
C3_Witness ==
    \E p \in LiveFrames :
        LET fr == FrameAt(p)
        IN  /\ fr.path = "fork" /\ Over(fr) /\ fr.num_tasks >= 2
            /\ \E c \in fr.inv : c.id = fr.num_tasks - 1 /\ c.e - c.s < fr.chunk_size

\* C5. Empty range: a call with begin >= end, whatever its grain_size, returns
\* at once: no body invocation, no Future, nothing dispatched to the pool, no
\* error; parallel_reduce returns ident and never calls the combiner.
C5_EmptyRange ==
    \A p \in LiveFrames :
        LET fr == FrameAt(p)
        IN  fr.begin >= fr.end =>
              /\ fr.pc = "ret" /\ fr.exc = "none"
              /\ fr.ninv = 0 /\ fr.inv = {}
              /\ fr.nfut = 0 /\ fr.ndisp = 0 /\ ~Outstanding(p)
              /\ fr.ncomb = 0
              /\ fr.op = "reduce" => fr.retval = fr.ident

\* parallel_reduce with begin > end, a negative grain size and ident 1 returned
C5_Witness ==
    \E p \in LiveFrames :
        LET fr == FrameAt(p)
        IN  /\ fr.op = "reduce" /\ fr.begin > fr.end /\ fr.grain_size < 0
            /\ fr.ident = 1 /\ fr.pc = "ret" /\ fr.retval = 1

\* C6 as claimed: every call with grain_size < 0, for any begin and end,
\* fails with the invalid-argument error, with no body invocation and no dispatch.
C6_NegativeGrainAlwaysFails ==
    \A p \in LiveFrames :
        LET fr == FrameAt(p)
        IN  fr.grain_size < 0 =>
              /\ fr.pc = "threw" /\ fr.exc = "invalid"
              /\ fr.ninv = 0 /\ fr.ndisp = 0 /\ fr.nfut = 0

\* C6. Negative grain size, amended: a call with grain_size < 0 and begin < end
\* fails with the invalid-argument error, with no body invocation, no Future and
\* no dispatch; with begin >= end the empty-range check comes first and the
\* call returns without error.
C6_NegativeGrainFailsOnNonEmptyRange ==
    \A p \in LiveFrames :
        LET fr == FrameAt(p)
        IN  fr.grain_size < 0 =>
              /\ fr.ninv = 0 /\ fr.ndisp = 0 /\ fr.nfut = 0 /\ ~Outstanding(p)
              /\ fr.begin < fr.end => fr.pc = "threw" /\ fr.exc = "invalid"
              /\ fr.begin >= fr.end => fr.pc = "ret" /\ fr.exc = "none"

\* a top-level call with a negative grain size and a non-empty range has thrown
C6_Witness ==
    \E p \in LiveFrames :
        LET fr == FrameAt(p)
        IN  /\ p[1] \in Callers /\ p[2] = 1
            /\ fr.grain_size < 0 /\ fr.begin < fr.end /\ fr.pc = "threw"

\* the sequential fold of the elements of [begin, end) from acc, left to right
RECURSIVE SequentialFold(_, _, _)
SequentialFold(begin, end, acc) ==
    IF begin >= end THEN acc
    ELSE SequentialFold(begin + 1, end, acc + Elem(begin))

\* C7. Reduce equals the sequential fold: with the combiner + and ident 0, a
\* parallel_reduce call over a non-empty range with grain_size >= 1 that returns
\* has returned the sequential fold of the elements of [begin, end), on the
\* forked and on the direct path; in the forked path slot k of results holds
\* the fold of chunk k.
C7_ReduceEqualsSequentialFold ==
    \A p \in LiveFrames :
        LET fr == FrameAt(p)
        IN  ( /\ fr.op = "reduce" /\ fr.pc = "ret" /\ fr.ident = 0
              /\ fr.begin < fr.end /\ fr.grain_size >= 1 ) =>
              /\ fr.retval = SequentialFold(fr.begin, fr.end, 0)
              /\ fr.path = "fork" =>
                    \A c \in fr.inv : fr.results[c.id] = SequentialFold(c.s, c.e, 0)

\* a forked parallel_reduce with two chunks has returned
C7_Witness ==
    \E p \in LiveFrames :
        LET fr == FrameAt(p)
        IN  /\ fr.op = "reduce" /\ fr.pc = "ret" /\ fr.ident = 0 /\ fr.grain_size >= 1
            /\ fr.path = "fork" /\ fr.num_tasks >= 2 /\ fr.retval > 0

\* the call of the frame at p was made from inside a running chunk body: a
\* frame below it runs chunk 0, or the thread is a pool worker
InChunk(p) ==
    \/ \E j \in 1..(p[2] - 1) : stack[p[1]][j].pc = "body0"
    \/ p[1] \in Workers

\* C8 as claimed: a call made from inside a running chunk body sees
\* in_parallel_region = true and runs as one direct invocation body(begin, end)
\* on the same thread, for any range and grain size.
C8_NestedCallIsOneDirectInvocation ==
    \A p \in LiveFrames :
        LET fr == FrameAt(p)
        IN  InChunk(p) =>
              /\ fr.inreg
              /\ fr.path = "direct"
              /\ fr.inv = {[id |-> 0, s |-> fr.begin, e |-> fr.end, thr |-> p[1]]}
              /\ fr.ninv = 1
              /\ fr.nfut = 0 /\ fr.ndisp = 0

\* C8. Nesting guard, amended: a call made from inside a running chunk body
\* sees in_parallel_region = true, creates no Future and dispatches nothing,
\* for any range and grain size; with begin < end and grain_size >= 0 it runs
\* as one direct invocation body(begin, end) on the same thread; with
\* begin >= end it returns and with begin < end, grain_size < 0 it throws, the
\* body not invoked.
C8_NestingGuard ==
    \A p \in LiveFrames :
        LET fr == FrameAt(p)
        IN  InChunk(p) =>
              /\ fr.inreg
              /\ fr.thr = p[1]
              /\ fr.path # "fork"
              /\ fr.nfut = 0 /\ fr.ndisp = 0 /\ ~Outstanding(p)
              /\ fr.begin < fr.end /\ fr.grain_size >= 0 =>
                    /\ fr.path = "direct"
                    /\ fr.inv = {[id |-> 0, s |-> fr.begin, e |-> fr.end, thr |-> p[1]]}
                    /\ fr.ninv = 1
              /\ ~(fr.begin < fr.end /\ fr.grain_size >= 0) =>
                    fr.ninv = 0 /\ Over(fr)

\* a call made by a chunk body on a pool worker, over a range a top-level call
\* would fork, has run its body directly and returned
C8_Witness ==
    \E p \in LiveFrames :
        LET fr == FrameAt(p)
        IN  /\ p[1] \in Workers /\ wk[p[1]].pc = "body"
            /\ fr.end - fr.begin >= fr.grain_size /\ fr.grain_size >= 0
            /\ fr.end - fr.begin >= 2
            /\ fr.path = "direct" /\ fr.pc = "ret"

(***************************************************************************)
(* Properties of the planning path (specification SpecPlan).               *)
(***************************************************************************)
\* the ceiling of x / y, for x >= 0 and y >= 1
Ceiling(x, y) == CHOOSE q \in 0..x : q * y >= x /\ (q - 1) * y < x

\* the call being planned forks: lines 36-44
PlanForks ==
    /\ plan.in.begin < plan.in.end
    /\ plan.in.grain_size >= 0
    /\ plan.in.end - plan.in.begin >= plan.in.grain_size
    /\ ~plan.in.inreg

\* C4. Chunk sizing: a call forks exactly when begin < end, 0 <= grain_size <=
\* end - begin and the caller is not in a parallel region; then chunk_size =
\* max(grain_size, ceil((end-begin)/thread_count)), num_tasks =
\* ceil((end-begin)/chunk_size), every chunk but the last has chunk_size
\* indices and the last has between 1 and chunk_size; parallel_for(0, 100, 10)
\* with 4 threads gets chunk_size 25 and [0,25), [25,50), [50,75), [75,100).
C4_ChunkSizing ==
    LET i == plan.in
        range == i.end - i.begin
    IN  /\ plan.phase \in {"sized", "planned"} <=> plan.phase # "entry" /\ PlanForks
        /\ plan.phase \in {"sized", "planned"} =>
              /\ plan.chunk_size = Max(i.grain_size, Ceiling(range, i.nthreads))
              /\ plan.num_tasks = Ceiling(range, plan.chunk_size)
              /\ \A c \in plan.chunks :
                    /\ c.id < plan.num_tasks - 1 => c.e - c.s = plan.chunk_size
                    /\ c.id = plan.num_tasks - 1 =>
                          c.e = i.end /\ c.e - c.s >= 1 /\ c.e - c.s <= plan.chunk_size
        /\ plan.phase = "planned" =>
              { c.id : c \in plan.chunks } = 0..(plan.num_tasks - 1)
        /\ plan.phase = "planned" /\ i.begin = 0 /\ i.end = 100 /\ i.grain_size = 10
              /\ i.nthreads = 4 =>
              /\ plan.chunk_size = 25
              /\ plan.chunks = { [id |-> 0, s |-> 0, e |-> 25], [id |-> 1, s |-> 25, e |-> 50],
                                 [id |-> 2, s |-> 50, e |-> 75], [id |-> 3, s |-> 75, e |-> 100] }

\* parallel_for(0, 100, 10, body) with 4 threads has been planned: 4 chunks
C4_Witness ==
    /\ plan.phase = "planned"
    /\ plan.in.end = 100
    /\ Cardinality(plan.chunks) = 4

(***************************************************************************)
(* Properties of the inter-op pool (specification SpecInterOp).            *)
(***************************************************************************)
\* C9 as claimed: of the set_num_interop_threads calls made before any launch,
\* the first succeeds and every later one, whatever value it passes, raises.
C9_FirstSetSucceedsEveryLaterRaises ==
    \A c \in IClients :
        ires[c].op = "set" /\ ires[c].lz = 0 =>
            (ires[c].raised <=> ires[c].seq > 1)

\* C9. set_num_interop_threads, amended: of the calls made before any launch, a
\* call with n == 0 never raises, the first call with n > 0 succeeds and every
\* later call with n > 0, whatever value it passes, raises; so at most one
\* value is ever committed.
C9_SetPositiveSucceedsOnce ==
    \A c \in IClients :
        ires[c].op = "set" /\ ires[c].lz = 0 =>
            /\ ires[c].arg = 0 => ~ires[c].raised
            /\ ires[c].arg > 0 => (ires[c].raised <=> ires[c].pseq > 1)
            /\ ires[c].arg > 0 /\ ~ires[c].raised =>
                  committed = ires[c].arg /\ num_interop_threads \in {ires[c].arg, Initialized}

\* after a successful set(n > 0) by one client, a second set with another
\* positive value by the other client has raised
C9_Witness ==
    \E c, d \in IClients :
        /\ ires[c].op = "set" /\ ires[c].pseq = 1 /\ ~ires[c].raised
        /\ ires[d].op = "set" /\ ires[d].pseq = 2 /\ ires[d].raised
        /\ ires[d].arg # ires[c].arg
        /\ launches = 0

\* the size the pool is to have: the committed value, or the hardware concurrency
ExpectedPoolSize == IF committed > 0 THEN committed ELSE HardwareConcurrency

\* C10 as claimed: every launch completes without error and leaves the pool
\* constructed with the committed size, or with the hardware concurrency when
\* no size was committed; every get_num_interop_threads call begun after a
\* launch returns that size without error.
C10_PoolMaterialization ==
    \A c \in IClients :
        /\ ires[c].op = "launch" =>
              ~ires[c].raised /\ pool_ready /\ c10_pool = ExpectedPoolSize
        /\ ires[c].op = "get" /\ ires[c].lz > 0 =>
              ~ires[c].raised /\ ires[c].ret = ExpectedPoolSize

\* the state integer holds a value requested by set_num_interop_threads
UserRequested(v) == v > 0

\* C11. The state integer num_interop_threads is one-way: a step that changes it
\* is Unset -> UserRequested(n > 0), Unset -> Initialized or UserRequested(n) ->
\* Initialized; it never returns to Unset, never goes from one requested value
\* to another, and Initialized is never left.
C11_OneWayState ==
    [][num_interop_threads' # num_interop_threads =>
          \/ num_interop_threads = Unset /\ UserRequested(num_interop_threads')
          \/ num_interop_threads = Unset /\ num_interop_threads' = Initialized
          \/ UserRequested(num_interop_threads) /\ num_interop_threads' = Initialized]_vars

\* the integer went Unset -> UserRequested(n) -> Initialized, and a request made
\* after the launch was refused
C11_Witness ==
    /\ committed > 0
    /\ num_interop_threads = Initialized
    /\ \E c \in IClients :
          ires[c].op = "set" /\ ires[c].arg > 0 /\ ires[c].lz > 0 /\ ires[c].raised

\* client c makes the set_num_interop_threads call recorded in ires'
SetStepBy(c) ==
    /\ setCalls' = setCalls + 1
    /\ ires'[c].op = "set"
    /\ ires'[c].seq = setCalls'

\* C12. set_num_interop_threads(n): with n > 0 in state Unset it moves the state
\* to UserRequested(n) without error; with n > 0 in any other state it raises
\* and leaves the state unchanged; with n == 0 it neither raises nor changes the
\* state, whatever the state is.
C12_SetOutcomes ==
    [][\A c \in IClients :
          SetStepBy(c) =>
              LET n == ires'[c].arg
              IN  /\ n = 0 =>
                        ~ires'[c].raised /\ num_interop_threads' = num_interop_threads
                  /\ n > 0 /\ num_interop_threads = Unset =>
                        ~ires'[c].raised /\ num_interop_threads' = n
                  /\ n > 0 /\ num_interop_threads # Unset =>
                        ires'[c].raised /\ num_interop_threads' = num_interop_threads
                  /\ UNCHANGED <<pool_ready, c10_pool>>]_vars

\* the three cases have happened: a set(0) that was ignored after the pool was
\* materialized, and a set(n > 0) refused in state Initialized after another
\* one had succeeded in state Unset
C12_Witness ==
    /\ committed > 0
    /\ pool_ready
    /\ \E c, d \in IClients :
          /\ ires[c].op = "set" /\ ires[c].arg = 0 /\ ires[c].lz > 0 /\ ~ires[c].raised
          /\ ires[d].op = "set" /\ ires[d].arg > 0 /\ ires[d].lz > 0 /\ ires[d].raised

\* C13. get_num_interop_threads is read-only before materialization: neither of
\* its steps changes the state integer or constructs the pool when the value it
\* loaded is Unset or a requested n; it then returns the hardware concurrency
\* (Unset) or n (UserRequested(n)); a set(n > 0) made in state Unset after a get
\* has returned still succeeds.
C13_GetReadOnlyBeforeMaterialization ==
    [][\A c \in IClients :
          /\ ipc[c] = "idle" /\ ipc'[c] = "get" =>
                UNCHANGED <<num_interop_threads, pool_ready, c10_pool, committed>>
          /\ ipc[c] = "get" /\ ipc'[c] = "idle"
                /\ (nthreads_local[c] = Unset \/ UserRequested(nthreads_local[c])) =>
                /\ UNCHANGED <<num_interop_threads, pool_ready, c10_pool, committed>>
                /\ ires'[c].op = "get" /\ ~ires'[c].raised
                /\ ires'[c].ret = IF nthreads_local[c] = Unset
                                  THEN HardwareConcurrency
                                  ELSE nthreads_local[c]
          /\ \A d \in IClients :
                /\ ires[c].op = "get" /\ num_interop_threads = Unset
                /\ SetStepBy(d) /\ ires'[d].arg > 0
                => ~ires'[d].raised /\ num_interop_threads' = ires'[d].arg]_vars

\* a get has returned the hardware concurrency and the state is still Unset with
\* no pool, and the other client's get has returned too
C13_Witness ==
    /\ num_interop_threads = Unset
    /\ ~pool_ready /\ c10_pool = 0 /\ launches = 0
    /\ \E c \in IClients :
          ires[c].op = "get" /\ ires[c].ret = HardwareConcurrency /\ ~ires[c].raised

\* once a set(n > 0) has succeeded, the pool has size n whenever it exists, and
\* a get that loaded the integer after that set returns n without error
SizeAgreed ==
    committed > 0 =>
        /\ c10_pool \in {0, committed}
        /\ pool_ready => c10_pool = committed
        /\ \A c \in IClients :
              ires[c].op = "get" /\ nthreads_local[c] # Unset =>
                  ~ires[c].raised /\ ires[c].ret = committed

\* C19. Sizing under races of set(n1), set(n2) (n1, n2 > 0), launch and get in
\* any interleaving: a set(n > 0) returns without error only if no set(n > 0)
\* has succeeded before and no launch has run its exchange before, so at most
\* one succeeds and none does after a launch; after a successful set(n) the
\* pool, once materialized, has size n and every later get returns n.
C19_AtomicSizing ==
    [][(\A c \in IClients :
             SetStepBy(c) /\ ires'[c].arg > 0 /\ ~ires'[c].raised =>
                 /\ committed = 0 /\ launches = 0
                 /\ committed' = ires'[c].arg)
       /\ (committed > 0 => committed' = committed)
       /\ SizeAgreed']_vars

\* set(n1) succeeded, a racing set(n2) with another value was refused, the pool
\* was materialized with size n1, different from the hardware concurrency, and
\* a get that went through the pool returned n1
C19_Witness ==
    /\ committed > 0 /\ committed # HardwareConcurrency
    /\ pool_ready /\ c10_pool = committed
    /\ \E c, d \in IClients :
          /\ ires[c].op = "get" /\ nthreads_local[c] = Initialized
          /\ ires[c].ret = committed
          /\ ires[d].op = "set" /\ ires[d].arg > 0 /\ ires[d].arg # committed
          /\ ires[d].raised

(***************************************************************************)
(* Properties of the region flags (specification Spec).                    *)
(***************************************************************************)
\* the plan of the call of frame fr has exactly one chunk: the call takes the
\* else branch, or it forks with num_tasks = 1
SingleChunk(fr) ==
    \/ fr.path = "direct"
    \/ fr.path = "fork" /\ fr.num_tasks = 1

\* the body of the call of the frame at p is running on the calling thread
BodyRunningAt(p) ==
    /\ p[2] = Len(stack[p[1]])
    /\ FrameAt(p).pc \in {"direct", "body0"}

\* C15 as claimed: whenever the plan of a parallel_for call has exactly one
\* chunk, the body is invoked once on the calling thread with [begin, end) and,
\* while it runs, in_parallel_region and thread_num of that thread have the
\* values they had before the call.
C15_SingleChunkLeavesRegionContext ==
    \A p \in LiveFrames :
        LET fr == FrameAt(p)
            t == p[1]
        IN  fr.op = "for" /\ SingleChunk(fr) /\ BodyRunningAt(p) =>
                /\ fr.inv = {[id |-> 0, s |-> fr.begin, e |-> fr.end, thr |-> t]}
                /\ in_parallel_region[t] = fr.inreg
                /\ thread_num[t] = fr.tnum

\* what holds of the code: the call that takes the else branch leaves the flags
C15_ElseBranchLeavesRegionContext ==
    \A p \in LiveFrames :
        LET fr == FrameAt(p)
            t == p[1]
        IN  fr.path = "direct" /\ BodyRunningAt(p) =>
                /\ fr.inv = {[id |-> 0, s |-> fr.begin, e |-> fr.end, thr |-> t]}
                /\ in_parallel_region[t] = fr.inreg
                /\ thread_num[t] = fr.tnum

\* the thread on which chunk k of the frame at p is running its body
RunsChunk(e, p, k) ==
    IF k = 0
    THEN e = p[1] /\ FrameAt(p).pc = "body0"
    ELSE /\ e \in Workers /\ e # p[1]
         /\ wk[e].pc = "body" /\ wk[e].owner = p[1] /\ wk[e].lvl = p[2]
         /\ wk[e].task_id = k

\* C16. In a forked call with more than one chunk, while the body of chunk k
\* is executing (calls it makes included), it executes on one thread, the
\* calling thread for chunk 0 and a pool worker for chunks 1..num_tasks-1, and
\* that thread's in_parallel_region is true and its thread_num is k.
C16_RegionFlagsDuringChunk ==
    \A p \in LiveFrames :
        LET fr == FrameAt(p)
        IN  fr.path = "fork" /\ fr.num_tasks > 1 =>
                \A k \in DOMAIN fr.chunk :
                    fr.chunk[k] = "running" =>
                        \E e \in Threads :
                            /\ RunsChunk(e, p, k)
                            /\ \A d \in Threads : RunsChunk(d, p, k) => d = e
                            /\ \E i \in fr.inv : i.id = k /\ i.thr = e
                            /\ in_parallel_region[e]
                            /\ thread_num[e] = k

\* chunk 0 runs on the caller and chunk 1 on a worker at the same time, and the
\* worker's body is inside a call it made
C16_Witness ==
    \E p \in LiveFrames, w \in Workers :
        /\ FrameAt(p).path = "fork" /\ FrameAt(p).num_tasks > 1
        /\ FrameAt(p).chunk[0] = "running" /\ FrameAt(p).chunk[1] = "running"
        /\ RunsChunk(w, p, 1) /\ thread_num[w] = 1 /\ thread_num[p[1]] = 0
        /\ stack[w] # << >>

\* thread t has the region flags of a thread outside every parallel region
FlagsClear(t) == ~in_parallel_region[t] /\ thread_num[t] = NoThreadNum

\* C17. The region flags are restored on every exit path: once chunk 0 of a call
\* has finished on the calling thread (body returned or threw), and once the
\* call is returning or throwing, the calling thread's in_parallel_region and
\* thread_num are those it had before the call; a pool worker that has finished
\* a chunk or is idle, and a caller outside every call, has in_parallel_region
\* false and thread_num unset.
C17_RegionFlagsRestored ==
    /\ \A p \in LiveFrames :
          LET fr == FrameAt(p)
              t == p[1]
          IN  p[2] = Len(stack[t]) /\ fr.pc \in {"wait", "ret", "threw"} =>
                  in_parallel_region[t] = fr.inreg /\ thread_num[t] = fr.tnum
    /\ \A w \in Workers : wk[w].pc \in {"idle", "mark"} => FlagsClear(w)
    /\ \A t \in Callers : stack[t] = << >> => FlagsClear(t)

\* chunk 0 has thrown on the caller and chunk 1 has thrown on a worker, which
\* has not yet completed its future; both threads have their flags back
C17_Witness ==
    \E p \in LiveFrames, w \in Workers :
        /\ FrameAt(p).path = "fork" /\ FrameAt(p).pc = "wait"
        /\ FrameAt(p).chunk[0] = "raised"
        /\ wk[w].pc = "mark" /\ wk[w].owner = p[1] /\ wk[w].lvl = p[2]
        /\ FrameAt(p).chunk[wk[w].task_id] = "raised"
        /\ FlagsClear(w) /\ FlagsClear(p[1])

(***************************************************************************)
(* Properties of the futures (specification Spec).                         *)
(***************************************************************************)
\* the task ids for which the call of frame fr creates a future
PoolTasks(fr) == FirstPoolTask..(fr.num_tasks - 1)

\* worker w holds the unit of work of chunk k of the frame at p
HoldsUnit(w, p, k) ==
    wk[w].pc # "idle" /\ wk[w].owner = p[1] /\ wk[w].lvl = p[2] /\ wk[w].task_id = k

\* C18. In every forked call each future of task_id in 1..num_tasks-1 is marked
\* completed exactly once: never twice; only after its chunk's body has returned
\* or thrown, the exception has been captured and the worker's region flags
\* have been reset; and by the time the call returns or throws the wait loop
\* has waited on every one of them, each completed once.
C18_FuturesCompletedOnce ==
    \A p \in LiveFrames :
        LET fr == FrameAt(p)
        IN  fr.path = "fork" =>
              /\ \A k \in PoolTasks(fr) :
                    /\ fr.completions[k] <= 1
                    /\ fr.futures[k] = "completed" <=> fr.completions[k] = 1
                    /\ fr.futures[k] = "completed" =>
                          /\ fr.chunk[k] \in {"ok", "raised"}
                          /\ fr.chunk[k] = "raised" => fr.err_flag /\ fr.eptr # NullEptr
                          /\ ~\E w \in Workers : HoldsUnit(w, p, k)
                    /\ \A w \in Workers :
                          HoldsUnit(w, p, k) /\ wk[w].pc = "mark" =>
                              /\ fr.futures[k] = "pending"
                              /\ fr.chunk[k] \in {"ok", "raised"}
                              /\ fr.chunk[k] = "raised" => fr.err_flag /\ fr.eptr # NullEptr
                              /\ FlagsClear(w)
              /\ fr.pc = "wait" =>
                    \A k \in PoolTasks(fr) : k < fr.task_id => fr.futures[k] = "completed"
              /\ Over(fr) =>
                    /\ fr.task_id = fr.num_tasks
                    /\ fr.nfut = fr.num_tasks - 1
                    /\ \A k \in PoolTasks(fr) : fr.completions[k] = 1

\* a call with a pool chunk has thrown after waiting on its future, which was
\* completed once after the chunk's body threw
C18_Witness ==
    \E p \in LiveFrames :
        /\ FrameAt(p).path = "fork" /\ FrameAt(p).num_tasks = 2
        /\ FrameAt(p).pc = "threw"
        /\ FrameAt(p).completions[1] = 1 /\ FrameAt(p).futures[1] = "completed"
        /\ FrameAt(p).chunk[1] = "raised" /\ FrameAt(p).chunk[0] = "ok"

(***************************************************************************)
(* Fan-out of the planning path (specification SpecPlan).                  *)
(***************************************************************************)
\* C20. Bounded fan-out: in every forked call (begin < end, grain_size >= 0,
\* thread_count >= 1) 1 <= num_tasks <= thread_count and every task_id in
\* 1..num_tasks-1 has begin + task_id * chunk_size < end; so the dispatch loop
\* hands the pool exactly num_tasks - 1 units of work and never takes the
\* branch that completes a future without dispatching a chunk.
C20_BoundedFanOut ==
    LET i == plan.in
    IN  plan.phase \in {"sized", "planned"} =>
          /\ i.begin < i.end /\ i.grain_size >= 0 /\ i.nthreads >= 1
          /\ plan.chunk_size >= 1
          /\ 1 <= plan.num_tasks /\ plan.num_tasks <= i.nthreads
          /\ \A task_id \in FirstPoolTask..(plan.num_tasks - 1) :
                i.begin + task_id * plan.chunk_size < i.end
          /\ plan.skipped = 0
          /\ Cardinality({ c \in plan.chunks : c.id >= FirstPoolTask }) =
                Min(plan.task_id, plan.num_tasks) - 1
          /\ plan.phase = "planned" =>
                Cardinality({ c \in plan.chunks : c.id >= FirstPoolTask }) =
                    plan.num_tasks - 1

\* a call planned with as many chunks as threads, more than two, the last chunk
\* shorter than the others
C20_Witness ==
    /\ plan.phase = "planned"
    /\ plan.num_tasks = plan.in.nthreads /\ plan.num_tasks > 2
    /\ plan.skipped = 0
    /\ \E c \in plan.chunks :
          c.id = plan.num_tasks - 1 /\ c.e - c.s < plan.chunk_size

(***************************************************************************)
(* Termination (specification SpecFair).                                   *)
(***************************************************************************)
\* no pool worker is in a call that forked: a worker never reaches the wait loop
NoWorkerWaits ==
    \A w \in Workers :
        \A i \in 1..Len(stack[w]) : stack[w][i].path # "fork"

\* every call that was made, by a thread or by a body, has returned or thrown to
\* its caller, and the pool has no work left
AllReturned ==
    /\ \A t \in Threads : stack[t] = << >>
    /\ \A w \in Workers : wk[w].pc = "idle"
    /\ queue = << >>

====
